---- MODULE Spec2Model ----
(***************************************************************************)
(* Credential lifecycle (AuthManager), client cache (index.ts) and retry   *)
(* wrapper (YouTubeClient.withRetry / handleApiError) of the YouTube       *)
(* analytics MCP server.                                                   *)
(*                                                                         *)
(* Asynchronous code is modelled with run-to-completion semantics: a       *)
(* process position (pc) is either an await on an external operation       *)
(* (file system, network, interactive flow) or a synchronous label.  While *)
(* any process is at a synchronous label nothing else may run (Running).   *)
(***************************************************************************)
EXTENDS Integers, Sequences, FiniteSets, TLC

\* ---------------------------------------------------------------- bounds
MaxOps == 2
MaxTicks == 1
TickMs == 150000
MaxClients == 5

\* ------------------------------------------------------------- constants
Procs == {1, 2}
Undef == 0
Null == 0
FiveMinutes == 5 * 60 * 1000
Mode600 == 384
CreateModes == {384, 420}
ExpiresIn == 3 * TickMs
T0 == 2 * TickMs
MaxNow == T0 + MaxTicks * TickMs
ClientIds == 1..MaxClients

CredsWeb == [client_id |-> 1, client_secret |-> 1]

NoToken ==
  [type |-> "authorized_user", client_id |-> Undef, client_secret |-> Undef,
   refresh_token |-> Undef, access_token |-> Undef, expiry_date |-> Undef]

NoClient ==
  [client_id |-> Undef, client_secret |-> Undef, access_token |-> Undef,
   refresh_token |-> Undef, expiry_date |-> Undef]

VARIABLES
  authClient,          \* AuthManager.authClient: client id or Null
  clients,             \* heap of OAuth2Client objects: id -> credentials
  tokenFile,           \* TOKEN_PATH: [state, rec]
  tokenMode,           \* permission bits of TOKEN_PATH (0 when absent)
  credsFile,           \* CREDENTIALS_PATH: "absent" | "corrupt" | "ok"
  now,                 \* Date.now()
  youtubeClientCache,  \* <<>> (null) or <<[id, auth]>>: a YouTubeClient and its auth
  issued,              \* access tokens issued so far by the authority
  ops,                 \* operations started so far
  proc,                \* per process: pc and locals
  h,                   \* per process: events of the running operation
  last,                \* the operation that finished last: [op, res, ret, saved]
  rpc,                 \* withRetry: "idle" | "attempt" | "sleep" | "done"
  maxRetries,          \* withRetry: parameter maxRetries
  i,                   \* withRetry: loop variable i
  attempts,            \* calls of fn() made by the running withRetry
  sleeps,              \* delays of the setTimeout calls, in order
  errs,                \* errors thrown by fn(), in order
  outcome,             \* what the API method gave its caller
  calls,               \* API methods called so far
  shutdown             \* "none", a delivered "SIGINT" or "SIGTERM", or "exited"

authVars == <<authClient, clients, tokenFile, tokenMode, credsFile, now,
              youtubeClientCache, issued, ops, proc, h, last>>

retryVars == <<rpc, maxRetries, i, attempts, sleeps, errs, outcome, calls,
               shutdown>>

\* ------------------------------------------------------------- helpers
SyncLabels == {"gacEntry", "rtinCheck", "rtinFail", "gacRet", "gycEntry"}

Running == \E q \in Procs : proc[q].pc \in SyncLabels

IdleProc ==
  [pc |-> "idle", op |-> "none", site |-> "none", auth |-> Null,
   td |-> NoToken, gres |-> "none", gret |-> Null, opRes |-> "none",
   n |-> 0, yret |-> Null, saved |-> NoClient]

\* x || undefined
OrUndefined(x) == IF x = Undef THEN Undef ELSE x

\* mutant: the comparison turned round
NeedsRefresh_flipped(expiryDate, t) ==
  LET fiveMinutesFromNow == t + FiveMinutes
  IN  expiryDate = Undef \/ expiryDate >= fiveMinutesFromNow

\* mutant: a credential without expiry_date is taken to be valid
NeedsRefresh_truthy(expiryDate, t) ==
  LET fiveMinutesFromNow == t + FiveMinutes
  IN  expiryDate # Undef /\ expiryDate <= fiveMinutesFromNow

\* the condition of line 112: !expiryDate || expiryDate <= fiveMinutesFromNow
NeedsRefresh(expiryDate, t) ==
  LET fiveMinutesFromNow == t + FiveMinutes
  IN  expiryDate = Undef \/ expiryDate <= fiveMinutesFromNow

CacheRefs == {youtubeClientCache[n].auth : n \in 1..Len(youtubeClientCache)}

Live ==
  ({authClient} \cup CacheRefs
     \cup {proc[q].auth : q \in Procs} \cup {proc[q].gret : q \in Procs}
     \cup UNION {{h[q][n].c : n \in 1..Len(h[q])} : q \in Procs})
  \ {Null}

\* new OAuth2Client(...): the object gets an identity no live object has
NewId == CHOOSE c \in ClientIds \ Live : \A d \in ClientIds \ Live : c <= d

\* an event of the running operation: what happened, to which client, when
\* (Date.now()), and the expiry_date the client had at that moment
Ev(p, e, c, x) ==
  h' = [h EXCEPT ![p] = Append(@, [e |-> e, c |-> c, t |-> now, x |-> x])]

Has(p, e) == \E n \in 1..Len(h[p]) : h[p][n].e = e
HasFor(p, e, c) == \E n \in 1..Len(h[p]) : h[p][n].e = e /\ h[p][n].c = c
Count(p, e) == Cardinality({n \in 1..Len(h[p]) : h[p][n].e = e})

\* mutant: the refresh token is not looked at
NoRefreshToken_unchecked(credentials) == FALSE

\* the condition of line 116: !auth.credentials.refresh_token
NoRefreshToken(credentials) == credentials.refresh_token = Undef

\* mutant: a new record is built around the new access token
WithAccessToken_rebuilt(tokenData, credentials) ==
  [type |-> "authorized_user",
   client_id |-> Undef,
   client_secret |-> Undef,
   refresh_token |-> Undef,
   access_token |-> OrUndefined(credentials.access_token),
   expiry_date |-> tokenData.expiry_date]

\* updateStoredToken, line 167: the parsed record with its access_token assigned
WithAccessToken(tokenData, credentials) ==
  [tokenData EXCEPT !.access_token = OrUndefined(credentials.access_token)]

\* mutant: the new expiry is not stored
UpdatedTokenData_tokenOnly(tokenData, credentials) ==
  [tokenData EXCEPT !.access_token = OrUndefined(credentials.access_token)]

\* updateStoredToken, lines 167-168
UpdatedTokenData(tokenData, credentials) ==
  [WithAccessToken(tokenData, credentials)
     EXCEPT !.expiry_date = OrUndefined(credentials.expiry_date)]

\* mutant: the expiry is left out of the record
SavedTokenData_noExpiry(web, credentials) ==
  [type |-> "authorized_user",
   client_id |-> web.client_id,
   client_secret |-> web.client_secret,
   refresh_token |-> credentials.refresh_token,
   access_token |-> OrUndefined(credentials.access_token),
   expiry_date |-> Undef]

\* saveToken, lines 143-150: the record made of credentials.web and of
\* client.credentials
SavedTokenData(web, credentials) ==
  [type |-> "authorized_user",
   client_id |-> web.client_id,
   client_secret |-> web.client_secret,
   refresh_token |-> credentials.refresh_token,
   access_token |-> OrUndefined(credentials.access_token),
   expiry_date |-> OrUndefined(credentials.expiry_date)]

\* mutant: the client stays cached
ClearedAuthClient_kept(auth) == auth

\* this.authClient = null, lines 132, 30 and 64
ClearedAuthClient(auth) == Null

\* fs.writeFile that rejects: the file is as it was, or it was truncated on open
FailedWrite(file, truncated) ==
  IF truncated /\ file.state # "absent"
    THEN [state |-> "corrupt", rec |-> NoToken]
    ELSE file

\* --------------------------------------------------------------- Init
InitTokenRecs ==
  {[type |-> "authorized_user", client_id |-> 1, client_secret |-> 1,
    refresh_token |-> r, access_token |-> a, expiry_date |-> e] :
     r \in {Undef, 1}, a \in {Undef, 1},
     e \in {Undef, TickMs, T0 + FiveMinutes, T0 + FiveMinutes + TickMs}}

InitTokenFiles ==
  {[state |-> "absent", rec |-> NoToken], [state |-> "corrupt", rec |-> NoToken]}
  \cup {[state |-> "ok", rec |-> r] : r \in InitTokenRecs}

AuthInit ==
  /\ authClient = Null
  /\ clients = [c \in ClientIds |-> NoClient]
  /\ tokenFile \in InitTokenFiles
  /\ tokenMode \in (IF tokenFile.state = "absent" THEN {0} ELSE {Mode600, 420})
  /\ credsFile \in {"absent", "corrupt", "ok"}
  /\ now = T0
  /\ youtubeClientCache = <<>>
  /\ issued = 1
  /\ ops = 0
  /\ proc = [p \in Procs |-> IdleProc]
  /\ h = [p \in Procs |-> <<>>]
  /\ last = [op |-> "none", res |-> "none", ret |-> Null, saved |-> NoClient]

\* -------------------------------------------------- operations: entry
OpKinds == {"getAuthClient", "isAuthenticated", "revoke_auth",
            "getYouTubeClient", "clearYouTubeClientCache"}

EntryLabel(k) ==
  IF k \in {"getYouTubeClient", "clearYouTubeClientCache"} THEN "gycEntry"
  ELSE "gacEntry"

Start(p, k) ==
  /\ ~Running
  /\ proc[p].pc = "idle"
  /\ ops < MaxOps
  /\ ops' = ops + 1
  /\ proc' = [proc EXCEPT ![p] = [IdleProc EXCEPT !.op = k, !.pc = EntryLabel(k),
                                                  !.n = ops + 1]]
  /\ h' = [h EXCEPT ![p] = <<>>]
  /\ UNCHANGED <<authClient, clients, tokenFile, tokenMode, credsFile, now,
                 youtubeClientCache, issued, last>>
  /\ UNCHANGED retryVars

\* Date.now() advances between operations and while they await
Tick ==
  /\ ~Running
  /\ now < MaxNow
  /\ now' = now + TickMs
  /\ UNCHANGED <<authClient, clients, tokenFile, tokenMode, credsFile,
                 youtubeClientCache, issued, ops, proc, h, last>>
  /\ UNCHANGED retryVars

\* ------------------------------------------------ AuthManager.getAuthClient
\* lines 24-26: cached client, or go and load the record
GetAuthClient_Entry(p) ==
  /\ proc[p].pc = "gacEntry"
  /\ IF authClient # Null
       THEN proc' = [proc EXCEPT ![p] = [@ EXCEPT !.pc = "rtinCheck",
                                            !.site = "cached", !.auth = authClient]]
       ELSE proc' = [proc EXCEPT ![p] = [@ EXCEPT !.pc = "loadReadToken"]]
  /\ Ev(p, "enter", authClient, IF authClient = Null THEN Undef ELSE clients[authClient].expiry_date)
  /\ UNCHANGED <<authClient, clients, tokenFile, tokenMode, credsFile, now,
                 youtubeClientCache, issued, ops, last>>
  /\ UNCHANGED retryVars

\* refreshTokenIfNeeded, lines 108-121, up to the call of refreshAccessToken
RefreshTokenIfNeeded_Check(p) ==
  LET auth == proc[p].auth IN
  /\ proc[p].pc = "rtinCheck"
  /\ IF NeedsRefresh(clients[auth].expiry_date, now)
       THEN IF NoRefreshToken(clients[auth])
              THEN /\ proc' = [proc EXCEPT ![p] = [@ EXCEPT !.pc = "rtinFail"]]
                   /\ Ev(p, "noRefreshToken", auth, Undef)
              ELSE /\ proc' = [proc EXCEPT ![p] = [@ EXCEPT !.pc = "awaitRefresh"]]
                   /\ Ev(p, "exchange", auth, Undef)
       ELSE /\ proc' = [proc EXCEPT ![p] = [@ EXCEPT !.pc = "gacRet",
                                               !.gres = "ok", !.gret = authClient]]
            /\ Ev(p, "fresh", auth, Undef)
  /\ UNCHANGED <<authClient, clients, tokenFile, tokenMode, credsFile, now,
                 youtubeClientCache, issued, ops, last>>
  /\ UNCHANGED retryVars

\* lines 121-125: the exchange settles; setCredentials; updateStoredToken starts
RefreshAccessToken_Done(p) ==
  LET auth == proc[p].auth IN
  /\ ~Running
  /\ proc[p].pc = "awaitRefresh"
  /\ \E ok \in BOOLEAN :
       IF ok
         THEN /\ clients' = [clients EXCEPT ![auth] =
                   [@ EXCEPT !.access_token = issued + 1,
                             !.expiry_date = now + ExpiresIn]]
              /\ issued' = issued + 1
              /\ proc' = [proc EXCEPT ![p] = [@ EXCEPT !.pc = "ustRead"]]
              /\ Ev(p, "exchangeOk", auth, Undef)
         ELSE /\ proc' = [proc EXCEPT ![p] = [@ EXCEPT !.pc = "rtinFail"]]
              /\ Ev(p, "exchangeFail", auth, Undef)
              /\ UNCHANGED <<clients, issued>>
  /\ UNCHANGED <<authClient, tokenFile, tokenMode, credsFile, now,
                 youtubeClientCache, ops, last>>
  /\ UNCHANGED retryVars

\* updateStoredToken, lines 163-168
UpdateStoredToken_Read(p) ==
  LET auth == proc[p].auth IN
  /\ ~Running
  /\ proc[p].pc = "ustRead"
  /\ IF tokenFile.state = "ok"
       THEN /\ proc' = [proc EXCEPT ![p] = [@ EXCEPT !.pc = "ustWrite",
                 !.td = UpdatedTokenData(tokenFile.rec, clients[auth])]]
            /\ UNCHANGED h
       ELSE /\ proc' = [proc EXCEPT ![p] = [@ EXCEPT !.pc = "rtinFail"]]
            /\ Ev(p, "persistFail", auth, Undef)
  /\ UNCHANGED <<authClient, clients, tokenFile, tokenMode, credsFile, now,
                 youtubeClientCache, issued, ops, last>>
  /\ UNCHANGED retryVars

\* updateStoredToken, line 170, then the returns of lines 127 and 27 / 60
UpdateStoredToken_Write(p) ==
  LET auth == proc[p].auth IN
  /\ ~Running
  /\ proc[p].pc = "ustWrite"
  /\ \E ok \in BOOLEAN, m \in CreateModes, truncated \in BOOLEAN :
       IF ok
         THEN /\ ~truncated
              /\ tokenFile' = [state |-> "ok", rec |-> proc[p].td]
              /\ tokenMode' = IF tokenFile.state = "absent" THEN m ELSE tokenMode
              /\ proc' = [proc EXCEPT ![p] = [@ EXCEPT !.pc = "gacRet",
                                                 !.gres = "ok", !.gret = authClient]]
              /\ Ev(p, "persisted", auth, Undef)
         ELSE /\ m = Mode600
              /\ tokenFile' = FailedWrite(tokenFile, truncated)
              /\ proc' = [proc EXCEPT ![p] = [@ EXCEPT !.pc = "rtinFail"]]
              /\ Ev(p, "persistFail", auth, Undef)
              /\ UNCHANGED tokenMode
  /\ UNCHANGED <<authClient, clients, credsFile, now, youtubeClientCache,
                 issued, ops, last>>
  /\ UNCHANGED retryVars

\* where getAuthClient goes on after a failed refresh: the catch of lines
\* 28-31 falls through to the load of line 34, the catch of lines 61-65 calls
\* authenticate()
AfterDiscard(site) == IF site = "cached" THEN "loadReadToken" ELSE "authAccess"

\* refreshTokenIfNeeded, lines 129-133, and the catch that receives the
\* TokenExpiredError: lines 28-31 (cached client) or lines 61-65 (loaded)
RefreshTokenIfNeeded_Fail(p) ==
  /\ proc[p].pc = "rtinFail"
  /\ authClient' = ClearedAuthClient(proc[p].auth)
  /\ proc' = [proc EXCEPT ![p] = [@ EXCEPT
        !.pc = AfterDiscard(proc[p].site)]]
  /\ Ev(p, "discard", proc[p].auth, Undef)
  /\ UNCHANGED <<clients, tokenFile, tokenMode, credsFile, now,
                 youtubeClientCache, issued, ops, last>>
  /\ UNCHANGED retryVars

\* mutant: the error of the load is thrown to the caller
LoadFailed_thrown == "gacRet"

\* lines 61-65: the catch of the load goes on with authenticate()
LoadFailed == "authAccess"

\* lines 36-37: read and parse TOKEN_PATH; a missing file fails in readFile,
\* an unparsable one in JSON.parse
GetAuthClient_ReadToken(p) ==
  /\ ~Running
  /\ proc[p].pc = "loadReadToken"
  /\ IF tokenFile.state = "ok"
       THEN /\ proc' = [proc EXCEPT ![p] = [@ EXCEPT !.pc = "loadReadCreds",
                                               !.td = tokenFile.rec]]
            /\ UNCHANGED <<authClient, h>>
       ELSE /\ authClient' = Null
            /\ proc' = [proc EXCEPT ![p] = [@ EXCEPT !.pc = LoadFailed]]
            /\ Ev(p, IF tokenFile.state = "corrupt" THEN "parseFail" ELSE "loadFail",
                  Null, Undef)
  /\ UNCHANGED <<clients, tokenFile, tokenMode, credsFile, now,
                 youtubeClientCache, issued, ops, last>>
  /\ UNCHANGED retryVars

\* lines 40-58: read CREDENTIALS_PATH, build the client, set the stored tokens
GetAuthClient_ReadCreds(p) ==
  /\ ~Running
  /\ proc[p].pc = "loadReadCreds"
  /\ IF credsFile = "ok"
       THEN /\ clients' = [clients EXCEPT ![NewId] =
                 [client_id |-> CredsWeb.client_id,
                  client_secret |-> CredsWeb.client_secret,
                  access_token |-> proc[p].td.access_token,
                  refresh_token |-> proc[p].td.refresh_token,
                  expiry_date |-> proc[p].td.expiry_date]]
            /\ authClient' = NewId
            /\ proc' = [proc EXCEPT ![p] = [@ EXCEPT !.pc = "rtinCheck",
                                               !.site = "loaded", !.auth = NewId]]
            /\ Ev(p, "load", NewId, proc[p].td.expiry_date)
       ELSE /\ authClient' = Null
            /\ proc' = [proc EXCEPT ![p] = [@ EXCEPT !.pc = LoadFailed]]
            /\ Ev(p, "loadFail", Null, Undef)
            /\ UNCHANGED clients
  /\ UNCHANGED <<tokenFile, tokenMode, credsFile, now, youtubeClientCache,
                 issued, ops, last>>
  /\ UNCHANGED retryVars

\* ------------------------------------------------ AuthManager.authenticate
\* mutant: the file is not looked for
Accessible_unchecked(file) == TRUE

\* line 73: fs.access(CREDENTIALS_PATH) resolves
Accessible(file) == file # "absent"

\* lines 72-79: fs.access(CREDENTIALS_PATH)
Authenticate_Access(p) ==
  /\ ~Running
  /\ proc[p].pc = "authAccess"
  /\ IF ~Accessible(credsFile)
       THEN /\ proc' = [proc EXCEPT ![p] = [@ EXCEPT !.pc = "gacRet",
                                               !.gres = "err", !.gret = Null]]
            /\ Ev(p, "noCredentials", Null, Undef)
       ELSE /\ proc' = [proc EXCEPT ![p] = [@ EXCEPT !.pc = "authFlow"]]
            /\ Ev(p, "acquire", Null, Undef)
  /\ UNCHANGED <<authClient, clients, tokenFile, tokenMode, credsFile, now,
                 youtubeClientCache, issued, ops, last>>
  /\ UNCHANGED retryVars

\* lines 84-92: the interactive flow settles; the client is cached; saveToken starts
Authenticate_Flow(p) ==
  /\ ~Running
  /\ proc[p].pc = "authFlow"
  /\ \E ok \in BOOLEAN, rt \in {Undef, 1} :
       IF ok
         THEN /\ clients' = [clients EXCEPT ![NewId] =
                   [client_id |-> CredsWeb.client_id,
                    client_secret |-> CredsWeb.client_secret,
                    access_token |-> issued + 1,
                    refresh_token |-> rt,
                    expiry_date |-> now + ExpiresIn]]
              /\ issued' = issued + 1
              /\ authClient' = NewId
              /\ proc' = [proc EXCEPT ![p] = [@ EXCEPT !.pc = "saveRead",
                                                 !.auth = NewId]]
              /\ Ev(p, "acquired", NewId, Undef)
         ELSE /\ rt = Undef
              /\ proc' = [proc EXCEPT ![p] = [@ EXCEPT !.pc = "gacRet",
                                                 !.gres = "err", !.gret = Null]]
              /\ Ev(p, "acquireFail", Null, Undef)
              /\ UNCHANGED <<authClient, clients, issued>>
  /\ UNCHANGED <<tokenFile, tokenMode, credsFile, now, youtubeClientCache,
                 ops, last>>
  /\ UNCHANGED retryVars

\* ---------------------------------------------------- AuthManager.saveToken
\* lines 140-150
SaveToken_Read(p) ==
  LET client == proc[p].auth IN
  /\ ~Running
  /\ proc[p].pc = "saveRead"
  /\ IF credsFile = "ok"
       THEN /\ proc' = [proc EXCEPT ![p] = [@ EXCEPT !.pc = "saveWrite",
                 !.td = SavedTokenData(CredsWeb, clients[client])]]
            /\ UNCHANGED h
       ELSE /\ proc' = [proc EXCEPT ![p] = [@ EXCEPT !.pc = "gacRet",
                                               !.gres = "err", !.gret = Null]]
            /\ Ev(p, "saveFail", client, Undef)
  /\ UNCHANGED <<authClient, clients, tokenFile, tokenMode, credsFile, now,
                 youtubeClientCache, issued, ops, last>>
  /\ UNCHANGED retryVars

\* line 152; the credential that was written is noted (saved)
SaveToken_Write(p) ==
  LET client == proc[p].auth IN
  /\ ~Running
  /\ proc[p].pc = "saveWrite"
  /\ \E ok \in BOOLEAN, m \in CreateModes, truncated \in BOOLEAN :
       IF ok
         THEN /\ ~truncated
              /\ tokenFile' = [state |-> "ok", rec |-> proc[p].td]
              /\ tokenMode' = IF tokenFile.state = "absent" THEN m ELSE tokenMode
              /\ proc' = [proc EXCEPT ![p] = [@ EXCEPT !.pc = "saveChmod",
                                                 !.saved = clients[client]]]
              /\ Ev(p, "written", client, Undef)
         ELSE /\ m = Mode600
              /\ tokenFile' = FailedWrite(tokenFile, truncated)
              /\ proc' = [proc EXCEPT ![p] = [@ EXCEPT !.pc = "gacRet",
                                                 !.gres = "err", !.gret = Null]]
              /\ Ev(p, "saveFail", client, Undef)
              /\ UNCHANGED tokenMode
  /\ UNCHANGED <<authClient, clients, credsFile, now, youtubeClientCache,
                 issued, ops, last>>
  /\ UNCHANGED retryVars

\* line 155, then the return of line 96
SaveToken_Chmod(p) ==
  LET client == proc[p].auth IN
  /\ ~Running
  /\ proc[p].pc = "saveChmod"
  /\ \E ok \in BOOLEAN :
       IF ok /\ tokenFile.state # "absent"
         THEN /\ tokenMode' = Mode600
              /\ proc' = [proc EXCEPT ![p] = [@ EXCEPT !.pc = "gacRet", !.gres = "ok",
                    !.gret = IF authClient # Null THEN authClient ELSE client]]
              /\ Ev(p, "saved", client, Undef)
         ELSE /\ proc' = [proc EXCEPT ![p] = [@ EXCEPT !.pc = "gacRet",
                                                 !.gres = "err", !.gret = Null]]
              /\ Ev(p, "saveFail", client, Undef)
              /\ UNCHANGED tokenMode
  /\ UNCHANGED <<authClient, clients, tokenFile, credsFile, now,
                 youtubeClientCache, issued, ops, last>>
  /\ UNCHANGED retryVars

\* ------------------------------------- the callers of getAuthClient
\* isAuthenticated, lines 196-203
IsAuthenticated(gres, auth) ==
  IF gres = "ok" /\ auth # Null THEN clients[auth].access_token # Undef ELSE FALSE

\* mutant: a client is built and cached whatever getAuthClient gave
CacheAfterGet_always(gres, n, auth) == <<[id |-> n, auth |-> auth]>>

\* index.ts lines 33-34 and 36-38: the cache after getAuthClient has settled
CacheAfterGet(gres, n, auth) ==
  IF gres = "ok" THEN <<[id |-> n, auth |-> auth]>> ELSE <<>>

\* getAuthClient returns to its caller: line 199 (isAuthenticated),
\* line 179 (revokeToken), index.ts lines 33-43 (getYouTubeClient), where
\* new YouTubeClient(auth) gets the number of the operation as its identity
GetAuthClient_Return(p) ==
  LET gres == proc[p].gres
      auth == proc[p].gret
  IN
  /\ proc[p].pc = "gacRet"
  /\ CASE proc[p].op = "getAuthClient" ->
            /\ proc' = [proc EXCEPT ![p] = [@ EXCEPT !.pc = "done", !.opRes = gres]]
            /\ UNCHANGED youtubeClientCache
       [] proc[p].op = "isAuthenticated" ->
            /\ proc' = [proc EXCEPT ![p] = [@ EXCEPT !.pc = "done",
                   !.opRes = IF IsAuthenticated(gres, auth) THEN "true" ELSE "false"]]
            /\ UNCHANGED youtubeClientCache
       [] proc[p].op = "revoke_auth" ->
            /\ IF gres = "ok" /\ auth # Null
                 THEN proc' = [proc EXCEPT ![p] = [@ EXCEPT !.pc = "revRevoke",
                                                      !.auth = auth]]
                 ELSE proc' = [proc EXCEPT ![p] = [@ EXCEPT !.pc = "done",
                                                      !.opRes = "err"]]
            /\ UNCHANGED youtubeClientCache
       [] proc[p].op = "getYouTubeClient" ->
            IF gres = "ok"
              THEN /\ youtubeClientCache' = CacheAfterGet(gres, proc[p].n, auth)
                   /\ proc' = [proc EXCEPT ![p] = [@ EXCEPT !.pc = "done",
                                                      !.opRes = "ok",
                                                      !.yret = proc[p].n]]
              ELSE /\ youtubeClientCache' = CacheAfterGet(gres, proc[p].n, auth)
                   /\ proc' = [proc EXCEPT ![p] = [@ EXCEPT !.pc = "done",
                                                      !.opRes = "err"]]
  /\ Ev(p, "return", auth, Undef)
  /\ UNCHANGED <<authClient, clients, tokenFile, tokenMode, credsFile, now,
                 issued, ops, last>>
  /\ UNCHANGED retryVars

\* revokeToken, lines 179-182: auth.revokeCredentials() settles
RevokeToken_Revoke(p) ==
  LET auth == proc[p].auth IN
  /\ ~Running
  /\ proc[p].pc = "revRevoke"
  /\ \E ok \in BOOLEAN, wiped \in BOOLEAN :
       /\ clients' = IF wiped
             THEN [clients EXCEPT ![auth] = [@ EXCEPT !.access_token = Undef,
                       !.refresh_token = Undef, !.expiry_date = Undef]]
             ELSE clients
       /\ IF ok
            THEN /\ authClient' = Null
                 /\ proc' = [proc EXCEPT ![p] = [@ EXCEPT !.pc = "revUnlink"]]
                 /\ Ev(p, "revoked", auth, Undef)
            ELSE /\ proc' = [proc EXCEPT ![p] = [@ EXCEPT !.pc = "done",
                                                    !.opRes = "err"]]
                 /\ Ev(p, "revokeFail", auth, Undef)
                 /\ UNCHANGED authClient
  /\ UNCHANGED <<tokenFile, tokenMode, credsFile, now, youtubeClientCache,
                 issued, ops, last>>
  /\ UNCHANGED retryVars

\* revokeToken, lines 185-190, then the handler of revoke_auth, line 245
RevokeToken_Unlink(p) ==
  /\ ~Running
  /\ proc[p].pc = "revUnlink"
  /\ \E ok \in BOOLEAN :
       IF ok /\ tokenFile.state # "absent"
         THEN /\ tokenFile' = [state |-> "absent", rec |-> NoToken]
              /\ tokenMode' = 0
              /\ Ev(p, "unlinked", Null, Undef)
         ELSE /\ Ev(p, "unlinkFail", Null, Undef)
              /\ UNCHANGED <<tokenFile, tokenMode>>
  /\ youtubeClientCache' = <<>>
  /\ proc' = [proc EXCEPT ![p] = [@ EXCEPT !.pc = "done", !.opRes = "ok"]]
  /\ UNCHANGED <<authClient, clients, credsFile, now, issued, ops, last>>
  /\ UNCHANGED retryVars

\* mutant: the cached client is never reused
CacheHit_never(cache) == FALSE

\* index.ts line 29: if (youtubeClientCache)
CacheHit(cache) == cache # <<>>

\* index.ts lines 28-33: getYouTubeClient up to the call of getAuthClient; the
\* event notes the YouTubeClient the cache held at that moment
GetYouTubeClient_Entry(p) ==
  /\ proc[p].pc = "gycEntry"
  /\ proc[p].op = "getYouTubeClient"
  /\ IF CacheHit(youtubeClientCache)
       THEN /\ proc' = [proc EXCEPT ![p] = [@ EXCEPT !.pc = "done", !.opRes = "ok",
                                                !.yret = youtubeClientCache[1].id]]
            /\ Ev(p, "get", Null, youtubeClientCache[1].id)
       ELSE /\ proc' = [proc EXCEPT ![p] = [@ EXCEPT !.pc = "gacEntry"]]
            /\ Ev(p, "get", Null, Null)
  /\ UNCHANGED <<authClient, clients, tokenFile, tokenMode, credsFile, now,
                 youtubeClientCache, issued, ops, last>>
  /\ UNCHANGED retryVars

\* mutant: clearing the cache also forgets the manager's client
ClearYouTubeClientCache_forget(p) ==
  /\ proc[p].pc = "gycEntry"
  /\ proc[p].op = "clearYouTubeClientCache"
  /\ youtubeClientCache' = <<>>
  /\ authClient' = Null
  /\ proc' = [proc EXCEPT ![p] = [@ EXCEPT !.pc = "done", !.opRes = "ok"]]
  /\ Ev(p, "invalidate", Null, Undef)
  /\ UNCHANGED <<clients, tokenFile, tokenMode, credsFile, now,
                 issued, ops, last>>
  /\ UNCHANGED retryVars

\* index.ts lines 48-50
ClearYouTubeClientCache(p) ==
  /\ proc[p].pc = "gycEntry"
  /\ proc[p].op = "clearYouTubeClientCache"
  /\ youtubeClientCache' = <<>>
  /\ proc' = [proc EXCEPT ![p] = [@ EXCEPT !.pc = "done", !.opRes = "ok"]]
  /\ Ev(p, "invalidate", Null, Undef)
  /\ UNCHANGED <<authClient, clients, tokenFile, tokenMode, credsFile, now,
                 issued, ops, last>>
  /\ UNCHANGED retryVars

\* the operation has returned to the dispatcher; unreachable clients are dropped
Finish(p) ==
  LET keep == ({authClient} \cup CacheRefs
                 \cup {proc[q].auth : q \in Procs \ {p}}
                 \cup {proc[q].gret : q \in Procs \ {p}}
                 \cup UNION {{h[q][n].c : n \in 1..Len(h[q])} : q \in Procs \ {p}})
              \ {Null}
  IN
  /\ ~Running
  /\ proc[p].pc = "done"
  /\ last' = [op |-> proc[p].op, res |-> proc[p].opRes, ret |-> proc[p].yret,
              saved |-> proc[p].saved]
  /\ proc' = [proc EXCEPT ![p] = IdleProc]
  /\ h' = [h EXCEPT ![p] = <<>>]
  /\ clients' = [c \in ClientIds |-> IF c \in keep THEN clients[c] ELSE NoClient]
  /\ UNCHANGED <<authClient, tokenFile, tokenMode, credsFile, now,
                 youtubeClientCache, issued, ops>>
  /\ UNCHANGED retryVars

\* ------------------------------- YouTubeClient.withRetry, handleApiError
MaxCalls == 2

DefaultMaxRetries == 3

\* error messages, as the characters String.prototype.includes looks at
quotaExceeded ==
  <<"q", "u", "o", "t", "a", "E", "x", "c", "e", "e", "d", "e", "d">>
userRateLimitExceeded ==
  <<"u", "s", "e", "r", "R", "a", "t", "e", "L", "i", "m", "i", "t",
    "E", "x", "c", "e", "e", "d", "e", "d">>
MsgQuota == quotaExceeded \o <<":", " ", "d", "a", "i", "l", "y">>
MsgUserRate == <<"4", "0", "3", " ">> \o userRateLimitExceeded
MsgRate ==
  <<"r", "a", "t", "e", "L", "i", "m", "i", "t", "E", "x", "c", "e", "e", "d", "e", "d">>
MsgBoth == userRateLimitExceeded \o <<",">> \o quotaExceeded
MsgPlain == <<"t", "o", "o", " ", "m", "a", "n", "y">>

Messages == {MsgQuota, MsgUserRate, MsgRate, MsgBoth, MsgPlain}
Codes == {Undef, 401, 403, 429, 500}

\* what fn() can throw: error.code and error.message (which may be undefined)
Errors ==
  {[code |-> c, hasMessage |-> TRUE, message |-> m] : c \in Codes, m \in Messages}
  \cup {[code |-> c, hasMessage |-> FALSE, message |-> <<>>] : c \in Codes}

\* message?.includes(needle)
Includes(error, needle) ==
  /\ error.hasMessage
  /\ \E k \in 0..(Len(error.message) - Len(needle)) :
        SubSeq(error.message, k + 1, k + Len(needle)) = needle

\* youtube-client.ts line 255
IsRetried(error) == error.code = 429 \/ Includes(error, quotaExceeded)

\* mutant: the bound is one too far
LastAttempt_late(n, max) == n = max

\* youtube-client.ts line 250: i === maxRetries - 1
LastAttempt(n, max) == n = max - 1

\* mutant: the same delay before every retry
Delay_fixed(n) == 1000

\* youtube-client.ts line 256: Math.pow(2, i) * 1000
Delay(n) == (2 ^ n) * 1000

\* mutant: the rate-limit marker is looked for before the quota marker
handleApiError_rateFirst(error) ==
  IF error.code = 403 /\ Includes(error, userRateLimitExceeded) THEN "RateLimitError"
  ELSE IF error.code = 403 /\ Includes(error, quotaExceeded) THEN "QuotaExceededError"
  ELSE IF error.code = 429 THEN "RateLimitError"
  ELSE IF error.code = 401 THEN "AuthenticationFailed"
  ELSE "rethrown"

\* youtube-client.ts lines 268-292, then the throw of the catch of the API
\* method (line 57): the name of the error the caller of the method receives
handleApiError(error) ==
  IF error.code = 403 /\ Includes(error, quotaExceeded) THEN "QuotaExceededError"
  ELSE IF error.code = 403 /\ Includes(error, userRateLimitExceeded) THEN "RateLimitError"
  ELSE IF error.code = 429 THEN "RateLimitError"
  ELSE IF error.code = 401 THEN "AuthenticationFailed"
  ELSE "rethrown"

RetryInit ==
  /\ rpc = "idle"
  /\ maxRetries = DefaultMaxRetries
  /\ i = 0
  /\ attempts = 0
  /\ sleeps = <<>>
  /\ errs = <<>>
  /\ outcome = "none"
  /\ calls = 0
  /\ shutdown = "none"

\* an API method calls withRetry (line 26); the loop starts and calls fn()
WithRetry_Call ==
  /\ shutdown # "exited"
  /\ rpc = "idle"
  /\ calls < MaxCalls
  /\ calls' = calls + 1
  /\ maxRetries' \in 1..DefaultMaxRetries
  /\ i' = 0
  /\ attempts' = 1
  /\ sleeps' = <<>>
  /\ errs' = <<>>
  /\ outcome' = "none"
  /\ rpc' = "attempt"
  /\ UNCHANGED <<authVars, shutdown>>

\* line 248: fn() resolves; withRetry returns its value
WithRetry_Resolve ==
  /\ shutdown # "exited"
  /\ rpc = "attempt"
  /\ outcome' = "value"
  /\ rpc' = "done"
  /\ UNCHANGED <<maxRetries, i, attempts, sleeps, errs, calls>>
  /\ UNCHANGED <<authVars, shutdown>>

\* lines 249-263: fn() rejects
WithRetry_Reject ==
  /\ shutdown # "exited"
  /\ rpc = "attempt"
  /\ \E error \in Errors :
       /\ errs' = Append(errs, error)
       /\ IF LastAttempt(i, maxRetries)
            THEN /\ outcome' = handleApiError(error)
                 /\ rpc' = "done"
                 /\ UNCHANGED sleeps
            ELSE IF IsRetried(error)
                   THEN /\ sleeps' = Append(sleeps, Delay(i))
                        /\ rpc' = "sleep"
                        /\ UNCHANGED outcome
                   ELSE /\ outcome' = handleApiError(error)
                        /\ rpc' = "done"
                        /\ UNCHANGED sleeps
  /\ UNCHANGED <<maxRetries, i, attempts, calls>>
  /\ UNCHANGED <<authVars, shutdown>>

\* lines 258-259 and 246-248: the timer fires; continue; i++; fn() is called
WithRetry_Wake ==
  /\ shutdown # "exited"
  /\ rpc = "sleep"
  /\ i' = i + 1
  /\ attempts' = attempts + 1
  /\ rpc' = "attempt"
  /\ UNCHANGED <<maxRetries, sleeps, errs, outcome, calls>>
  /\ UNCHANGED <<authVars, shutdown>>

\* the API method has returned or thrown
WithRetry_Done ==
  /\ shutdown # "exited"
  /\ rpc = "done"
  /\ rpc' = "idle"
  /\ UNCHANGED <<maxRetries, i, attempts, sleeps, errs, outcome, calls>>
  /\ UNCHANGED <<authVars, shutdown>>

\* index.ts lines 74 and 79: the signal is delivered and its listener queued
Signal ==
  /\ shutdown = "none"
  /\ shutdown' \in {"SIGINT", "SIGTERM"}
  /\ UNCHANGED <<rpc, maxRetries, i, attempts, sleeps, errs, outcome, calls>>
  /\ UNCHANGED authVars

\* mutant: the listener lets the running API call end before it exits
ProcessExit_graceful ==
  /\ shutdown \in {"SIGINT", "SIGTERM"}
  /\ rpc = "idle"
  /\ shutdown' = "exited"
  /\ UNCHANGED <<rpc, maxRetries, i, attempts, sleeps, errs, outcome, calls>>
  /\ UNCHANGED authVars

\* index.ts lines 74-82: the listener runs process.exit(0); withRetry is
\* suspended at an await (lines 248, 258) whenever the event loop runs it
ProcessExit ==
  /\ shutdown \in {"SIGINT", "SIGTERM"}
  /\ shutdown' = "exited"
  /\ UNCHANGED <<rpc, maxRetries, i, attempts, sleeps, errs, outcome, calls>>
  /\ UNCHANGED authVars

NextRetry ==
  \/ WithRetry_Call
  \/ WithRetry_Resolve
  \/ WithRetry_Reject
  \/ WithRetry_Wake
  \/ WithRetry_Done

StepAuth(p) ==
  \/ GetAuthClient_Entry(p)
  \/ RefreshTokenIfNeeded_Check(p)
  \/ RefreshAccessToken_Done(p)
  \/ UpdateStoredToken_Read(p)
  \/ UpdateStoredToken_Write(p)
  \/ RefreshTokenIfNeeded_Fail(p)
  \/ GetAuthClient_ReadToken(p)
  \/ GetAuthClient_ReadCreds(p)
  \/ Authenticate_Access(p)
  \/ Authenticate_Flow(p)
  \/ SaveToken_Read(p)
  \/ SaveToken_Write(p)
  \/ SaveToken_Chmod(p)
  \/ GetAuthClient_Return(p)
  \/ Finish(p)

StepTools(p) ==
  \/ RevokeToken_Revoke(p)
  \/ RevokeToken_Unlink(p)
  \/ GetYouTubeClient_Entry(p)
  \/ ClearYouTubeClientCache(p)

AllIdle == \A q \in Procs : proc[q].pc = "idle"

\* one operation at a time (stdio, one request after the other)
Init == AuthInit /\ RetryInit

Next ==
  \/ \E k \in OpKinds : AllIdle /\ Start(1, k)
  \/ Tick
  \/ StepAuth(1)
  \/ StepTools(1)

vars == <<authVars, retryVars>>

Spec == Init /\ [][Next]_vars

\* overlapping getAuthClient calls: a process resumes whenever its await settles
InitConc ==
  /\ AuthInit
  /\ RetryInit
  /\ tokenFile.rec.refresh_token # Undef
  /\ credsFile = "ok"
  /\ tokenFile.state = "ok"
  /\ tokenFile.rec.access_token # Undef
  /\ tokenMode = Mode600

NextConc ==
  \/ \E p \in Procs : Start(p, "getAuthClient")
  \/ \E p \in Procs : StepAuth(p)

SpecConc == InitConc /\ [][NextConc]_vars

\* the state in which a tool handler calls an API method (health-configs.ts
\* lines 15-16): getYouTubeClient has loaded a fresh credential and returned
\* the YouTubeClient it built, which is the one in the cache
HandlerHasClient ==
  LET credentials == [client_id |-> 1, client_secret |-> 1, access_token |-> 1,
                      refresh_token |-> 1,
                      expiry_date |-> T0 + FiveMinutes + TickMs]
  IN
  /\ authClient = 1
  /\ clients = [c \in ClientIds |-> IF c = 1 THEN credentials ELSE NoClient]
  /\ tokenFile = [state |-> "ok",
                  rec |-> [type |-> "authorized_user", client_id |-> 1,
                           client_secret |-> 1, refresh_token |-> 1,
                           access_token |-> 1,
                           expiry_date |-> T0 + FiveMinutes + TickMs]]
  /\ tokenMode = Mode600
  /\ credsFile = "ok"
  /\ now = T0
  /\ youtubeClientCache = <<[id |-> 1, auth |-> 1]>>
  /\ issued = 1
  /\ ops = 1
  /\ proc = [p \in Procs |-> IdleProc]
  /\ h = [p \in Procs |-> <<>>]
  /\ last = [op |-> "getYouTubeClient", res |-> "ok", ret |-> 1,
             saved |-> NoClient]

\* the retry wrapper of the API methods, called by a tool handler
InitRetry ==
  /\ RetryInit
  /\ HandlerHasClient

SpecRetry == InitRetry /\ [][NextRetry]_vars

\* the same, where every fn() settles and every timer fires
SpecRetryFair == SpecRetry /\ WF_vars(NextRetry)

\* the retry wrapper in a process that can receive SIGINT or SIGTERM
NextShutdown ==
  \/ WithRetry_Call
  \/ WithRetry_Resolve
  \/ WithRetry_Reject
  \/ WithRetry_Wake
  \/ WithRetry_Done
  \/ Signal
  \/ ProcessExit

\* the event loop runs a queued signal listener; nothing is assumed of fn()
\* or of the timers
SpecShutdown == InitRetry /\ [][NextShutdown]_vars /\ WF_vars(ProcessExit)

\* ===================================================================
\* Properties

\* C1 (SpecConc): single-flight refresh. While one refresh exchange
\* (auth.refreshAccessToken) is in flight, a getAuthClient call that overlaps
\* it does not start an exchange of its own. Calls of refreshAccessToken on
\* one and the same client object are counted as one exchange, so that the
\* count is a lower bound of the exchanges made: at most one client has an
\* exchange in flight at any time.
CX_C1 ==
  Cardinality({proc[p].auth : p \in {q \in Procs : proc[q].pc = "awaitRefresh"}}) <= 1

\* C2: a getAuthClient call that finds a credential (the cached one, or the
\* one it loads from the record) whose expiry_date is more than five minutes
\* after Date.now() returns that credential, and neither calls
\* refreshAccessToken nor writes TOKEN_PATH for it.
T_C2 ==
  \A p \in Procs :
    proc[p].pc = "gacRet" =>
      \A n \in 1..Len(h[p]) :
        LET ev == h[p][n] IN
        (/\ ev.e \in {"enter", "load"}
         /\ ev.c # Null
         /\ ev.x # Undef
         /\ ev.x > ev.t + 5 * 60 * 1000)
        => /\ proc[p].gres = "ok"
           /\ proc[p].gret = ev.c
           /\ \A m \in (n + 1)..Len(h[p]) :
                h[p][m].e \notin {"exchange", "persisted", "persistFail",
                                  "written", "acquire"}
           /\ (n = 1 => ~Has(p, "exchange") /\ ~Has(p, "persisted"))

\* C2 witness: a call has returned a cached credential that was still fresh
W_C2 ==
  \E p \in Procs :
    /\ proc[p].pc = "gacRet"
    /\ h[p][1].c # Null
    /\ h[p][1].x > h[p][1].t + 5 * 60 * 1000
    /\ proc[p].gret = h[p][1].c

CX_C6 ==
  \A p \in Procs :
    (/\ proc[p].pc = "done"
     /\ proc[p].op = "isAuthenticated"
     /\ last.op = "revoke_auth"
     /\ last.res = "ok")
    => proc[p].opRes = "false"

\* C7: when revokeToken() has called revokeCredentials() and finished,
\* whatever that call gave, authClient is null and TOKEN_PATH is gone.
CX_C7 ==
  \A p \in Procs :
    (/\ proc[p].pc = "done"
     /\ proc[p].op = "revoke_auth"
     /\ (Has(p, "revoked") \/ Has(p, "revokeFail")))
    => (authClient = Null /\ tokenFile.state = "absent")

\* C8 (SpecRetry): an API method whose first fn() fails with status 403 and
\* a message that has the quota marker calls fn() once, never sleeps, and
\* throws QuotaExceededError.
CX_C8 ==
  (/\ rpc = "done"
   /\ Len(errs) > 0
   /\ errs[1].code = 403
   /\ Includes(errs[1], quotaExceeded))
  => (attempts = 1 /\ sleeps = <<>> /\ outcome = "QuotaExceededError")

\* C9 (SpecRetry): an API method whose fn() always fails with a rate limit
\* (status 429, or status 403 with the rate-limit marker and no quota
\* marker) calls fn() maxRetries times, sleeps longer each time, and throws
\* RateLimitError.
CX_C9 ==
  (/\ rpc = "done"
   /\ outcome # "value"
   /\ \A n \in 1..Len(errs) :
        \/ errs[n].code = 429
        \/ /\ errs[n].code = 403
           /\ Includes(errs[n], userRateLimitExceeded)
           /\ ~Includes(errs[n], quotaExceeded))
  => /\ attempts = maxRetries
     /\ Len(sleeps) = maxRetries - 1
     /\ \A n \in 1..(Len(sleeps) - 1) : sleeps[n] < sleeps[n + 1]
     /\ outcome = "RateLimitError"

\* C10 (SpecRetry): an API method whose first fn() fails with status 401
\* calls fn() once and throws.
CX_C10 ==
  (/\ rpc = "done"
   /\ Len(errs) > 0
   /\ errs[1].code = 401)
  => (attempts = 1 /\ sleeps = <<>> /\ outcome # "value")

CX_C12 ==
  \A n \in 1..Len(errs) :
    (n <= Len(sleeps))
      <=> (handleApiError(errs[n]) = "RateLimitError" /\ n < maxRetries)

\* C13: a getYouTubeClient call that finds a client in the cache returns it
\* without calling getAuthClient and leaves the cache as it is; one that
\* finds the cache empty calls getAuthClient exactly once and, when that
\* gives a client, returns a new YouTubeClient bound to it, which is then the
\* one in the cache. A getYouTubeClient call that follows a successful one
\* with no operation in between returns the same YouTubeClient.
T_C13 ==
  \A p \in Procs :
    (proc[p].pc = "done" /\ proc[p].op = "getYouTubeClient") =>
      /\ h[p][1].x # Null =>
           /\ Len(h[p]) = 1
           /\ proc[p].opRes = "ok"
           /\ proc[p].yret = h[p][1].x
           /\ youtubeClientCache # <<>>
           /\ youtubeClientCache[1].id = h[p][1].x
      /\ h[p][1].x = Null =>
           /\ Count(p, "enter") = 1
           /\ Count(p, "return") = 1
           /\ proc[p].gres = "ok" =>
                /\ proc[p].opRes = "ok"
                /\ proc[p].yret = proc[p].n
                /\ youtubeClientCache = <<[id |-> proc[p].yret, auth |-> proc[p].gret]>>
      /\ (last.op = "getYouTubeClient" /\ last.res = "ok") =>
           (proc[p].opRes = "ok" /\ proc[p].yret = last.ret)

\* C13 witness: the second of two consecutive getYouTubeClient calls has
\* returned the client the first one built
W_C13 ==
  \E p \in Procs :
    /\ proc[p].pc = "done"
    /\ proc[p].op = "getYouTubeClient"
    /\ last.op = "getYouTubeClient"
    /\ last.res = "ok"
    /\ proc[p].yret = last.ret
    /\ proc[p].yret # Null

\* C14: the getYouTubeClient call that follows clearYouTubeClientCache calls
\* getAuthClient, and no getYouTubeClient call returns a YouTubeClient bound
\* to a credential that is stale at the moment of the return, that is, one
\* whose expiry_date is at most five minutes away or has passed.
CX_C14 ==
  \A p \in Procs :
    (/\ proc[p].pc = "done"
     /\ proc[p].op = "getYouTubeClient"
     /\ proc[p].opRes = "ok")
    => LET auth == youtubeClientCache[1].auth
           t == h[p][Len(h[p])].t
       IN  /\ last.op = "clearYouTubeClientCache" => Has(p, "enter")
           /\ ~(/\ clients[auth].expiry_date # Undef
                /\ clients[auth].expiry_date <= t + 5 * 60 * 1000)

\* C15 (SpecRetry): when an API method called through the cached
\* YouTubeClient has failed with the authentication failure (status 401) and
\* the tool handler has returned, the cache holds no client.
CX_C15 ==
  (rpc = "idle" /\ outcome = "AuthenticationFailed") => youtubeClientCache = <<>>

\* C16: when the revoke_auth handler has finished, with the success text or
\* with the error result, the cache holds no YouTubeClient.
CX_C16 ==
  \A p \in Procs :
    (proc[p].pc = "done" /\ proc[p].op = "revoke_auth")
    => youtubeClientCache = <<>>

\* C17: when getAuthClient loads the record that saveToken wrote in the
\* operation before, the client it builds has the client id, client secret,
\* refresh token, access token and expiry date of the client that was saved.
T_C17 ==
  \A p \in Procs :
    (/\ proc[p].pc = "rtinCheck"
     /\ proc[p].site = "loaded"
     /\ last.saved # NoClient)
    => /\ clients[proc[p].auth].client_id = last.saved.client_id
       /\ clients[proc[p].auth].client_secret = last.saved.client_secret
       /\ clients[proc[p].auth].refresh_token = last.saved.refresh_token
       /\ clients[proc[p].auth].access_token = last.saved.access_token
       /\ clients[proc[p].auth].expiry_date = last.saved.expiry_date

\* C17 witness: a credential with an access token and an expiry date was
\* saved, and the record has been loaded into a new client
W_C17 ==
  \E p \in Procs :
    /\ proc[p].pc = "rtinCheck"
    /\ proc[p].site = "loaded"
    /\ last.saved # NoClient
    /\ last.saved.access_token # Undef
    /\ last.saved.expiry_date # Undef
    /\ clients[proc[p].auth] = last.saved

\* C18: when a getAuthClient call has written TOKEN_PATH, in saveToken or in
\* updateStoredToken, the permission bits of the file are 0600 when the call
\* returns.
CX_C18 ==
  \A p \in Procs :
    (proc[p].pc = "gacRet" /\ (Has(p, "written") \/ Has(p, "persisted")))
    => tokenMode = Mode600

T_C20 ==
  \A p \in Procs :
    (proc[p].pc = "gacRet" /\ credsFile = "absent") =>
      /\ ~Has(p, "acquire")
      /\ ~Has(p, "acquired")
      /\ proc[p].gres = "ok" => (h[p][1].c # Null /\ proc[p].gret = h[p][1].c)
      /\ proc[p].gres = "err" =>
           /\ h[p][Len(h[p])].e = "noCredentials"
           /\ proc[p].gret = Null
      /\ (h[p][1].c = Null \/ Has(p, "exchangeFail") \/ Has(p, "noRefreshToken")
            \/ Has(p, "persistFail"))
           => proc[p].gres = "err"

\* C20 witness: no cached client, no CREDENTIALS_PATH: authenticate() was
\* called and has thrown
W_C20 ==
  \E p \in Procs :
    /\ proc[p].pc = "gacRet"
    /\ credsFile = "absent"
    /\ h[p][1].c = Null
    /\ Has(p, "noCredentials")
    /\ proc[p].gres = "err"

\* C21: when getAuthClient finds TOKEN_PATH present but unparsable, the
\* next thing it does is authenticate(), as for a missing file: the call
\* returns the client of the interactive flow, or fails with the
\* AuthenticationError of authenticate() (no CREDENTIALS_PATH, flow failed,
\* token not saved), never with the parse error.
T_C21 ==
  \A p \in Procs :
    proc[p].pc = "gacRet" =>
      \A n \in 1..Len(h[p]) :
        h[p][n].e = "parseFail"
        => /\ n < Len(h[p])
           /\ h[p][n + 1].e \in {"acquire", "noCredentials"}
           /\ proc[p].gres \in {"ok", "err"}
           /\ proc[p].gres = "ok" =>
                (proc[p].gret # Null /\ HasFor(p, "acquired", proc[p].gret))
           /\ proc[p].gres = "err" =>
                h[p][Len(h[p])].e \in {"noCredentials", "acquireFail", "saveFail"}

\* C21 witness: the record was unparsable and the call returns the client of
\* the interactive flow
W_C21 ==
  \E p \in Procs :
    /\ proc[p].pc = "gacRet"
    /\ Has(p, "parseFail")
    /\ proc[p].gres = "ok"
    /\ HasFor(p, "acquired", proc[p].gret)

\* C22: when a getAuthClient call has refreshed a credential and the write
\* of the record in updateStoredToken has failed, the call fails and
\* authClient is still that credential, with the new access token.
CX_C22 ==
  \A p \in Procs :
    proc[p].pc = "gacRet" =>
      \A n \in 1..Len(h[p]) :
        LET ev == h[p][n] IN
        (ev.e = "persistFail" /\ HasFor(p, "exchangeOk", ev.c))
        => /\ proc[p].gres = "err"
           /\ authClient = ev.c
           /\ clients[ev.c].access_token # Undef

\* C23 (SpecRetryFair): withRetry calls fn() at most maxRetries times, and
\* maxRetries is at most the default 3; it sleeps only between two calls of
\* fn(); when a call of fn() resolves, withRetry returns that value at once:
\* all the calls before it had failed and no sleep follows it. Every call of
\* withRetry comes to its end when fn() settles and the timers fire.
T_C23 ==
  /\ [](/\ attempts <= maxRetries
        /\ maxRetries <= DefaultMaxRetries
        /\ Len(sleeps) < maxRetries
        /\ rpc \in {"attempt", "done"} => Len(sleeps) = attempts - 1
        /\ (rpc = "done" /\ outcome = "value") => Len(errs) = attempts - 1
        /\ (rpc = "done" /\ outcome # "value") => Len(errs) = attempts)
  /\ [][(rpc = "attempt" /\ outcome' = "value")
          => (rpc' = "done" /\ attempts' = attempts /\ sleeps' = sleeps)]_vars
  /\ ((rpc = "attempt") ~> (rpc = "done"))

\* C23 witness: fn() failed twice and resolved at the third and last call
W_C23 ==
  /\ rpc = "done"
  /\ outcome = "value"
  /\ maxRetries = DefaultMaxRetries
  /\ attempts = maxRetries
  /\ Len(sleeps) = 2

\* C24 (SpecRetry): the retry that follows the failed call of fn() with
\* 0-based index n - 1 is preceded by one sleep of exactly 2^(n-1) seconds
\* (1000 ms after the first failure, 2000 ms after the second); the delay
\* depends on the index only, and each retry has slept exactly once.
T_C24 ==
  /\ \A n \in 1..Len(sleeps) : sleeps[n] = (2 ^ (n - 1)) * 1000
  /\ Len(sleeps) >= 1 => sleeps[1] = 1000
  /\ Len(sleeps) >= 2 => sleeps[2] = 2000
  /\ rpc = "attempt" => Len(sleeps) = i
  /\ rpc = "sleep" => Len(sleeps) = i + 1

\* C24 witness: the third call of fn() runs after sleeps of 1 s and 2 s
W_C24 ==
  /\ rpc = "attempt"
  /\ i = 2
  /\ sleeps = <<1000, 2000>>

\* C25 (Spec): a step of clearYouTubeClientCache empties the cache and
\* changes nothing else of the credential: the manager's authClient, the
\* fields of every auth client, the token record with its mode and the
\* credentials file are the same after the step as before it.
T_C25 ==
  [][(\E p \in Procs : /\ proc[p].pc = "gycEntry"
                       /\ proc[p].op = "clearYouTubeClientCache"
                       /\ proc'[p].pc = "done")
       => /\ youtubeClientCache' = <<>>
          /\ authClient' = authClient
          /\ clients' = clients
          /\ tokenFile' = tokenFile
          /\ tokenMode' = tokenMode
          /\ credsFile' = credsFile]_vars

\* C25 witness: the cache filled by the previous getYouTubeClient has just been
\* cleared while the manager holds a client and the record is on disk
W_C25 ==
  \E p \in Procs :
    /\ proc[p].pc = "done"
    /\ proc[p].op = "clearYouTubeClientCache"
    /\ last.op = "getYouTubeClient"
    /\ last.res = "ok"
    /\ youtubeClientCache = <<>>
    /\ authClient # Null
    /\ tokenFile.state = "ok"

\* C26 (SpecShutdown): once SIGINT or SIGTERM is delivered, in whatever state
\* the retry wrapper is (idle, fn() in flight, backoff sleep pending, call
\* ended), the exit of the process is enabled at once and does happen; nothing
\* of withRetry runs after the exit and the exit is final.
T_C26 ==
  /\ [](shutdown \in {"SIGINT", "SIGTERM"} => ENABLED ProcessExit)
  /\ ((shutdown \in {"SIGINT", "SIGTERM"}) ~> (shutdown = "exited"))
  /\ [][shutdown = "exited" => UNCHANGED vars]_vars

\* C26 witness: the process has exited while a backoff sleep was pending
W_C26 ==
  /\ shutdown = "exited"
  /\ rpc = "sleep"
  /\ Len(sleeps) >= 1

\* C27 (Spec): between two operations, when the cache holds a YouTubeClient
\* and the manager holds an auth client, the cached YouTubeClient is bound to
\* that auth client.
CX_C27 ==
  (AllIdle /\ youtubeClientCache # <<>> /\ authClient # Null)
    => youtubeClientCache[1].auth = authClient

\* C28 (Spec): when the getAuthClient call made by getYouTubeClient has
\* thrown, getYouTubeClient ends with an error for its caller, returns no
\* client, and the cache is empty; it is still empty when the next operation
\* starts.
T_C28 ==
  /\ \A p \in Procs :
       (/\ proc[p].pc = "done"
        /\ proc[p].op = "getYouTubeClient"
        /\ (proc[p].gres = "err" \/ proc[p].opRes = "err"))
         => /\ proc[p].gres = "err"
            /\ proc[p].opRes = "err"
            /\ proc[p].yret = Null
            /\ youtubeClientCache = <<>>
  /\ (AllIdle /\ last.op = "getYouTubeClient" /\ last.res = "err")
       => (youtubeClientCache = <<>> /\ last.ret = Null)

\* C28 witness: getYouTubeClient has failed because the interactive flow failed
W_C28 ==
  \E p \in Procs :
    /\ proc[p].pc = "done"
    /\ proc[p].op = "getYouTubeClient"
    /\ proc[p].opRes = "err"
    /\ Has(p, "acquireFail")
    /\ youtubeClientCache = <<>>

\* C29 (Spec): the step in which updateStoredToken writes the record after a
\* successful exchange finds a readable record and leaves its type, client_id,
\* client_secret and refresh_token as they were; only access_token and
\* expiry_date may differ.
T_C29 ==
  [][(\E p \in Procs : /\ proc[p].pc = "ustWrite"
                       /\ proc'[p].pc = "gacRet")
       => /\ tokenFile.state = "ok"
          /\ tokenFile'.state = "ok"
          /\ tokenFile'.rec.type = tokenFile.rec.type
          /\ tokenFile'.rec.client_id = tokenFile.rec.client_id
          /\ tokenFile'.rec.client_secret = tokenFile.rec.client_secret
          /\ tokenFile'.rec.refresh_token = tokenFile.rec.refresh_token
          /\ tokenMode' = tokenMode]_vars

\* C29 witness: a refreshed credential has been written into a record that
\* still names its client and its refresh token
W_C29 ==
  \E p \in Procs :
    /\ proc[p].pc = "gacRet"
    /\ h[p][Len(h[p])].e = "persisted"
    /\ tokenFile.state = "ok"
    /\ tokenFile.rec.access_token = clients[proc[p].gret].access_token
    /\ tokenFile.rec.client_id # Undef
    /\ tokenFile.rec.client_secret # Undef
    /\ tokenFile.rec.refresh_token # Undef

\* C30 (SpecConc): a getAuthClient call makes at most two refresh exchanges,
\* at most one on each client, each on the cached client or on the client
\* loaded from the record; it loads the record at most once and runs the
\* interactive flow at most once, after which no exchange follows; and when
\* it returns it gives a client or ends in the AuthenticationError of
\* authenticate().
CX_C30 ==
  \A p \in Procs :
    /\ Count(p, "exchange") <= 2
    /\ \A c \in ClientIds :
         Cardinality({n \in 1..Len(h[p]) :
                        h[p][n].e = "exchange" /\ h[p][n].c = c}) <= 1
    /\ \A n \in 1..Len(h[p]) : h[p][n].e = "exchange" =>
         (HasFor(p, "enter", h[p][n].c) \/ HasFor(p, "load", h[p][n].c))
    /\ Count(p, "load") + Count(p, "loadFail") + Count(p, "parseFail") <= 1
    /\ Count(p, "acquire") + Count(p, "noCredentials") <= 1
    /\ \A m, n \in 1..Len(h[p]) :
         (h[p][m].e \in {"acquire", "noCredentials"} /\ m < n)
           => h[p][n].e \notin {"exchange", "load", "acquire", "noCredentials"}
    /\ proc[p].pc = "gacRet" =>
         /\ proc[p].gres \in {"ok", "err"}
         /\ proc[p].gres = "ok" => proc[p].gret # Null
         /\ proc[p].gres = "err" =>
              h[p][Len(h[p])].e \in {"noCredentials", "acquireFail", "saveFail"}

====
